---- MODULE Spec2Model ----
(***************************************************************************)
(* Hospitationsbogen (BLI 3.0): the observation form of app.py, its score  *)
(* aggregation (compute_scores), its three exports (export_docx,           *)
(* export_pdf, export_json) and the Streamlit script that keeps the form   *)
(* in st.session_state across reruns.                                      *)
(*                                                                         *)
(* Conventions                                                             *)
(*  - A Python str is a sequence of Unicode code points, so that encoding  *)
(*    a text for a PDF core font is a computation on its characters.       *)
(*    Dictionary keys (module and criterion identifiers) are TLA+ strings; *)
(*    Chars(k) is their text.                                              *)
(*  - A Python dict is [keys |-> insertion order, val |-> mapping].        *)
(*  - A float is an exact rational [n |-> numerator, d |-> denominator] in *)
(*    lowest terms; the code's floats agree with it up to rounding error.  *)
(*  - A call returns [status |-> "ok", value |-> v] or, when it raises,    *)
(*    [status |-> "raise", exc |-> exception class].                       *)
(***************************************************************************)
EXTENDS Integers, Sequences, FiniteSets, TLC

\* ---- string literals of the export routines, as Unicode code points ----
\* app.py:154  "Hospitationsbogen \u2013 BLI 3.0"
TXT_TITLE ==
    <<72, 111, 115, 112, 105, 116, 97, 116, 105, 111, 110, 115, 98, 111, 103, 101, 110,
    32, 8211, 32, 66, 76, 73, 32, 51, 46, 48>>
\* app.py:158  "Datum: "
TXT_DATUM ==
    <<68, 97, 116, 117, 109, 58, 32>>
\* app.py:159  "    "
TXT_GAP ==
    <<32, 32, 32, 32>>
\* app.py:160  "Kolleg*in: "
TXT_KOLLEGIN ==
    <<75, 111, 108, 108, 101, 103, 42, 105, 110, 58, 32>>
\* app.py:162  "Beobachter*in: "
TXT_BEOBACHTERIN ==
    <<66, 101, 111, 98, 97, 99, 104, 116, 101, 114, 42, 105, 110, 58, 32>>
\* app.py:166  "Fach/Klasse/Thema: "
TXT_FACH ==
    <<70, 97, 99, 104, 47, 75, 108, 97, 115, 115, 101, 47, 84, 104, 101, 109, 97, 58, 32>>
\* app.py:167  " / "
TXT_SLASH ==
    <<32, 47, 32>>
\* app.py:171  "Schule: "
TXT_SCHULE ==
    <<83, 99, 104, 117, 108, 101, 58, 32>>
\* app.py:176  "Profil-Fokus: "
TXT_FOKUS ==
    <<80, 114, 111, 102, 105, 108, 45, 70, 111, 107, 117, 115, 58, 32>>
\* app.py:177  ", "
TXT_COMMA ==
    <<44, 32>>
\* app.py:181  " \u2013 "
TXT_DASH ==
    <<32, 8211, 32>>
\* app.py:184  "Kriterium"
TXT_KRITERIUM ==
    <<75, 114, 105, 116, 101, 114, 105, 117, 109>>
\* app.py:185  "Bewertung (0\u20134)"
TXT_BEWERTUNG_HDR ==
    <<66, 101, 119, 101, 114, 116, 117, 110, 103, 32, 40, 48, 8211, 52, 41>>
\* app.py:186  "Kommentar/Hinweis"
TXT_KOMMENTAR_HDR ==
    <<75, 111, 109, 109, 101, 110, 116, 97, 114, 47, 72, 105, 110, 119, 101, 105, 115>>
\* app.py:190  " "
TXT_SPACE ==
    <<32>>
\* app.py:194  ""
TXT_EMPTY ==
    << >>
\* app.py:197  "St\u00E4rken"
TXT_STAERKEN ==
    <<83, 116, 228, 114, 107, 101, 110>>
\* app.py:198  "-"
TXT_HYPHEN ==
    <<45>>
\* app.py:199  "N\u00E4chste Schritte (konkret, terminiert)"
TXT_SCHRITTE ==
    <<78, 228, 99, 104, 115, 116, 101, 32, 83, 99, 104, 114, 105, 116, 116, 101, 32, 40,
    107, 111, 110, 107, 114, 101, 116, 44, 32, 116, 101, 114, 109, 105, 110, 105, 101,
    114, 116, 41>>
\* app.py:204  "Zusammenfassung (Scores)"
TXT_SCORES ==
    <<90, 117, 115, 97, 109, 109, 101, 110, 102, 97, 115, 115, 117, 110, 103, 32, 40, 83,
    99, 111, 114, 101, 115, 41>>
\* app.py:206  ": "
TXT_COLON ==
    <<58, 32>>
\* app.py:206  " / 4"
TXT_OF4 ==
    <<32, 47, 32, 52>>
\* app.py:207  "Gesamt (gewichtet): "
TXT_GESAMT ==
    <<71, 101, 115, 97, 109, 116, 32, 40, 103, 101, 119, 105, 99, 104, 116, 101, 116, 41,
    58, 32>>
\* app.py:272  "  Bewertung: "
TXT_PDF_BEWERTUNG ==
    <<32, 32, 66, 101, 119, 101, 114, 116, 117, 110, 103, 58, 32>>
\* app.py:272  "/4"
TXT_PDF_OF4 ==
    <<47, 52>>
\* app.py:274  "  Kommentar: "
TXT_PDF_KOMMENTAR ==
    <<32, 32, 75, 111, 109, 109, 101, 110, 116, 97, 114, 58, 32>>
\* app.py:206  "."
TXT_DOT ==
    <<46>>

\* ---- BLI_DATA (app.py:23-64): titles and criterion texts ----
\* app.py:27  "Kompetenzziele sind f\u00FCr Lernende transparent."
CRIT_1_1 ==
    <<75, 111, 109, 112, 101, 116, 101, 110, 122, 122, 105, 101, 108, 101, 32, 115, 105,
    110, 100, 32, 102, 252, 114, 32, 76, 101, 114, 110, 101, 110, 100, 101, 32, 116,
    114, 97, 110, 115, 112, 97, 114, 101, 110, 116, 46>>
\* app.py:28  "Lehrkraft ist sprachbildend (Vorbildfunktion Deutsch)."
CRIT_1_2 ==
    <<76, 101, 104, 114, 107, 114, 97, 102, 116, 32, 105, 115, 116, 32, 115, 112, 114, 97,
    99, 104, 98, 105, 108, 100, 101, 110, 100, 32, 40, 86, 111, 114, 98, 105, 108, 100,
    102, 117, 110, 107, 116, 105, 111, 110, 32, 68, 101, 117, 116, 115, 99, 104, 41, 46>>
\* app.py:29  "Aktive Beteiligung der Lernenden wird gef\u00F6rdert."
CRIT_1_3 ==
    <<65, 107, 116, 105, 118, 101, 32, 66, 101, 116, 101, 105, 108, 105, 103, 117, 110,
    103, 32, 100, 101, 114, 32, 76, 101, 114, 110, 101, 110, 100, 101, 110, 32, 119,
    105, 114, 100, 32, 103, 101, 102, 246, 114, 100, 101, 114, 116, 46>>
\* app.py:30  "Unterricht unterst\u00FCtzt selbstst\u00E4ndiges Lernen."
CRIT_1_4 ==
    <<85, 110, 116, 101, 114, 114, 105, 99, 104, 116, 32, 117, 110, 116, 101, 114, 115,
    116, 252, 116, 122, 116, 32, 115, 101, 108, 98, 115, 116, 115, 116, 228, 110, 100,
    105, 103, 101, 115, 32, 76, 101, 114, 110, 101, 110, 46>>
\* app.py:31  "Reflexion der Lernprozesse wird angeleitet."
CRIT_1_5 ==
    <<82, 101, 102, 108, 101, 120, 105, 111, 110, 32, 100, 101, 114, 32, 76, 101, 114,
    110, 112, 114, 111, 122, 101, 115, 115, 101, 32, 119, 105, 114, 100, 32, 97, 110,
    103, 101, 108, 101, 105, 116, 101, 116, 46>>
\* app.py:37  "Fachlicher Kompetenzzuwachs wird erm\u00F6glicht."
CRIT_2_1 ==
    <<70, 97, 99, 104, 108, 105, 99, 104, 101, 114, 32, 75, 111, 109, 112, 101, 116, 101,
    110, 122, 122, 117, 119, 97, 99, 104, 115, 32, 119, 105, 114, 100, 32, 101, 114,
    109, 246, 103, 108, 105, 99, 104, 116, 46>>
\* app.py:38  "Medienkompetenz wird gef\u00F6rdert (zielgerichteter Medieneinsatz)."
CRIT_2_2 ==
    <<77, 101, 100, 105, 101, 110, 107, 111, 109, 112, 101, 116, 101, 110, 122, 32, 119,
    105, 114, 100, 32, 103, 101, 102, 246, 114, 100, 101, 114, 116, 32, 40, 122, 105,
    101, 108, 103, 101, 114, 105, 99, 104, 116, 101, 116, 101, 114, 32, 77, 101, 100,
    105, 101, 110, 101, 105, 110, 115, 97, 116, 122, 41, 46>>
\* app.py:39  "Methodenkompetenz wird aufgebaut und angewandt."
CRIT_2_3 ==
    <<77, 101, 116, 104, 111, 100, 101, 110, 107, 111, 109, 112, 101, 116, 101, 110, 122,
    32, 119, 105, 114, 100, 32, 97, 117, 102, 103, 101, 98, 97, 117, 116, 32, 117, 110,
    100, 32, 97, 110, 103, 101, 119, 97, 110, 100, 116, 46>>
\* app.py:40  "Deutschkompetenz wird gezielt entwickelt."
CRIT_2_4 ==
    <<68, 101, 117, 116, 115, 99, 104, 107, 111, 109, 112, 101, 116, 101, 110, 122, 32,
    119, 105, 114, 100, 32, 103, 101, 122, 105, 101, 108, 116, 32, 101, 110, 116, 119,
    105, 99, 107, 101, 108, 116, 46>>
\* app.py:41  "Fachsprache im DFU wird funktional genutzt."
CRIT_2_5 ==
    <<70, 97, 99, 104, 115, 112, 114, 97, 99, 104, 101, 32, 105, 109, 32, 68, 70, 85, 32,
    119, 105, 114, 100, 32, 102, 117, 110, 107, 116, 105, 111, 110, 97, 108, 32, 103,
    101, 110, 117, 116, 122, 116, 46>>
\* app.py:47  "Stundenablauf ist transparent und klar strukturiert."
CRIT_3_1 ==
    <<83, 116, 117, 110, 100, 101, 110, 97, 98, 108, 97, 117, 102, 32, 105, 115, 116, 32,
    116, 114, 97, 110, 115, 112, 97, 114, 101, 110, 116, 32, 117, 110, 100, 32, 107,
    108, 97, 114, 32, 115, 116, 114, 117, 107, 116, 117, 114, 105, 101, 114, 116, 46>>
\* app.py:48  "Medien/Arbeitsmittel werden zielgerichtet eingesetzt."
CRIT_3_2 ==
    <<77, 101, 100, 105, 101, 110, 47, 65, 114, 98, 101, 105, 116, 115, 109, 105, 116,
    116, 101, 108, 32, 119, 101, 114, 100, 101, 110, 32, 122, 105, 101, 108, 103, 101,
    114, 105, 99, 104, 116, 101, 116, 32, 101, 105, 110, 103, 101, 115, 101, 116, 122,
    116, 46>>
\* app.py:49  "Lehrkraft moderiert und steuert Lernprozesse."
CRIT_3_3 ==
    <<76, 101, 104, 114, 107, 114, 97, 102, 116, 32, 109, 111, 100, 101, 114, 105, 101,
    114, 116, 32, 117, 110, 100, 32, 115, 116, 101, 117, 101, 114, 116, 32, 76, 101,
    114, 110, 112, 114, 111, 122, 101, 115, 115, 101, 46>>
\* app.py:50  "Heterogenit\u00E4t wird didaktisch ber\u00FCcksichtigt."
CRIT_3_4 ==
    <<72, 101, 116, 101, 114, 111, 103, 101, 110, 105, 116, 228, 116, 32, 119, 105, 114,
    100, 32, 100, 105, 100, 97, 107, 116, 105, 115, 99, 104, 32, 98, 101, 114, 252, 99,
    107, 115, 105, 99, 104, 116, 105, 103, 116, 46>>
\* app.py:51  "Personalisiertes/individualisiertes Lernen wird gef\u00F6rdert."
CRIT_3_5 ==
    <<80, 101, 114, 115, 111, 110, 97, 108, 105, 115, 105, 101, 114, 116, 101, 115, 47,
    105, 110, 100, 105, 118, 105, 100, 117, 97, 108, 105, 115, 105, 101, 114, 116, 101,
    115, 32, 76, 101, 114, 110, 101, 110, 32, 119, 105, 114, 100, 32, 103, 101, 102,
    246, 114, 100, 101, 114, 116, 46>>
\* app.py:57  "Sozial kompetentes, wertsch\u00E4tzendes Miteinander."
CRIT_4_1 ==
    <<83, 111, 122, 105, 97, 108, 32, 107, 111, 109, 112, 101, 116, 101, 110, 116, 101,
    115, 44, 32, 119, 101, 114, 116, 115, 99, 104, 228, 116, 122, 101, 110, 100, 101,
    115, 32, 77, 105, 116, 101, 105, 110, 97, 110, 100, 101, 114, 46>>
\* app.py:58  "Kooperative Lernarrangements unterst\u00FCtzen Soziallernen."
CRIT_4_2 ==
    <<75, 111, 111, 112, 101, 114, 97, 116, 105, 118, 101, 32, 76, 101, 114, 110, 97, 114,
    114, 97, 110, 103, 101, 109, 101, 110, 116, 115, 32, 117, 110, 116, 101, 114, 115,
    116, 252, 116, 122, 101, 110, 32, 83, 111, 122, 105, 97, 108, 108, 101, 114, 110,
    101, 110, 46>>
\* app.py:59  "Differenzierte, kriteriengeleitete R\u00FCckmeldungen."
CRIT_4_3 ==
    <<68, 105, 102, 102, 101, 114, 101, 110, 122, 105, 101, 114, 116, 101, 44, 32, 107,
    114, 105, 116, 101, 114, 105, 101, 110, 103, 101, 108, 101, 105, 116, 101, 116, 101,
    32, 82, 252, 99, 107, 109, 101, 108, 100, 117, 110, 103, 101, 110, 46>>
\* app.py:60  "Positive Fehlerkultur ist sichtbar."
CRIT_4_4 ==
    <<80, 111, 115, 105, 116, 105, 118, 101, 32, 70, 101, 104, 108, 101, 114, 107, 117,
    108, 116, 117, 114, 32, 105, 115, 116, 32, 115, 105, 99, 104, 116, 98, 97, 114, 46>>
\* app.py:61  "Lernumgebung unterst\u00FCtzt Lernaktivit\u00E4ten."
CRIT_4_5 ==
    <<76, 101, 114, 110, 117, 109, 103, 101, 98, 117, 110, 103, 32, 117, 110, 116, 101,
    114, 115, 116, 252, 116, 122, 116, 32, 76, 101, 114, 110, 97, 107, 116, 105, 118,
    105, 116, 228, 116, 101, 110, 46>>

\* app.py:85  "\u2014 Neu \u2014"
PROFILE_NEU ==
    <<8212, 32, 78, 101, 117, 32, 8212>>
\* app.py:86  "Beispiel: Frau M\u00FCller"
PROFILE_MUELLER ==
    <<66, 101, 105, 115, 112, 105, 101, 108, 58, 32, 70, 114, 97, 117, 32, 77, 252, 108,
    108, 101, 114>>
\* app.py:87  "Beispiel: Herr Schmidt"
PROFILE_SCHMIDT ==
    <<66, 101, 105, 115, 112, 105, 101, 108, 58, 32, 72, 101, 114, 114, 32, 83, 99, 104,
    109, 105, 100, 116>>

\* str(key) for the module and criterion identifiers that occur in records
\* (the catalog keys and the unknown keys M9 / 9.1 used as invalid input).
Chars(k) ==
    CASE k = "M1" -> <<77, 49>>
      [] k = "1.1" -> <<49, 46, 49>>
      [] k = "1.2" -> <<49, 46, 50>>
      [] k = "1.3" -> <<49, 46, 51>>
      [] k = "1.4" -> <<49, 46, 52>>
      [] k = "1.5" -> <<49, 46, 53>>
      [] k = "M2" -> <<77, 50>>
      [] k = "2.1" -> <<50, 46, 49>>
      [] k = "2.2" -> <<50, 46, 50>>
      [] k = "2.3" -> <<50, 46, 51>>
      [] k = "2.4" -> <<50, 46, 52>>
      [] k = "2.5" -> <<50, 46, 53>>
      [] k = "M3" -> <<77, 51>>
      [] k = "3.1" -> <<51, 46, 49>>
      [] k = "3.2" -> <<51, 46, 50>>
      [] k = "3.3" -> <<51, 46, 51>>
      [] k = "3.4" -> <<51, 46, 52>>
      [] k = "3.5" -> <<51, 46, 53>>
      [] k = "M4" -> <<77, 52>>
      [] k = "4.1" -> <<52, 46, 49>>
      [] k = "4.2" -> <<52, 46, 50>>
      [] k = "4.3" -> <<52, 46, 51>>
      [] k = "4.4" -> <<52, 46, 52>>
      [] k = "4.5" -> <<52, 46, 53>>
      [] k = "M9" -> <<77, 57>>
      [] k = "9.1" -> <<57, 46, 49>>

\* app.py:23-64. A dict is modelled as [keys |-> insertion order, val |-> mapping].
BLI_DATA ==
    [keys |-> <<"M1", "M2", "M3", "M4">>,
     val |-> [mk \in {"M1", "M2", "M3", "M4"} |->
        CASE mk = "M1" ->
            [title |->
                \* app.py:25  "Sch\u00FClerinnen und Sch\u00FCler aktivieren"
                <<83, 99, 104, 252, 108, 101, 114, 105, 110, 110, 101, 110, 32, 117, 110,
                100, 32, 83, 99, 104, 252, 108, 101, 114, 32, 97, 107, 116, 105, 118, 105,
                101, 114, 101, 110>>,
             criteria |->
                [keys |-> <<"1.1", "1.2", "1.3", "1.4", "1.5">>,
                 val |-> [ck \in {"1.1", "1.2", "1.3", "1.4", "1.5"} |->
                    CASE ck = "1.1" -> CRIT_1_1
                      [] ck = "1.2" -> CRIT_1_2
                      [] ck = "1.3" -> CRIT_1_3
                      [] ck = "1.4" -> CRIT_1_4
                      [] ck = "1.5" -> CRIT_1_5
                 ]]]
          [] mk = "M2" ->
            [title |->
                \* app.py:35  "Kompetenzen entwickeln"
                <<75, 111, 109, 112, 101, 116, 101, 110, 122, 101, 110, 32, 101, 110, 116,
                119, 105, 99, 107, 101, 108, 110>>,
             criteria |->
                [keys |-> <<"2.1", "2.2", "2.3", "2.4", "2.5">>,
                 val |-> [ck \in {"2.1", "2.2", "2.3", "2.4", "2.5"} |->
                    CASE ck = "2.1" -> CRIT_2_1
                      [] ck = "2.2" -> CRIT_2_2
                      [] ck = "2.3" -> CRIT_2_3
                      [] ck = "2.4" -> CRIT_2_4
                      [] ck = "2.5" -> CRIT_2_5
                 ]]]
          [] mk = "M3" ->
            [title |->
                \* app.py:45  "Unterricht lernwirksam gestalten"
                <<85, 110, 116, 101, 114, 114, 105, 99, 104, 116, 32, 108, 101, 114, 110,
                119, 105, 114, 107, 115, 97, 109, 32, 103, 101, 115, 116, 97, 108, 116,
                101, 110>>,
             criteria |->
                [keys |-> <<"3.1", "3.2", "3.3", "3.4", "3.5">>,
                 val |-> [ck \in {"3.1", "3.2", "3.3", "3.4", "3.5"} |->
                    CASE ck = "3.1" -> CRIT_3_1
                      [] ck = "3.2" -> CRIT_3_2
                      [] ck = "3.3" -> CRIT_3_3
                      [] ck = "3.4" -> CRIT_3_4
                      [] ck = "3.5" -> CRIT_3_5
                 ]]]
          [] mk = "M4" ->
            [title |->
                \* app.py:55  "Lernklima f\u00F6rderlich gestalten"
                <<76, 101, 114, 110, 107, 108, 105, 109, 97, 32, 102, 246, 114, 100, 101,
                114, 108, 105, 99, 104, 32, 103, 101, 115, 116, 97, 108, 116, 101, 110>>,
             criteria |->
                [keys |-> <<"4.1", "4.2", "4.3", "4.4", "4.5">>,
                 val |-> [ck \in {"4.1", "4.2", "4.3", "4.4", "4.5"} |->
                    CASE ck = "4.1" -> CRIT_4_1
                      [] ck = "4.2" -> CRIT_4_2
                      [] ck = "4.3" -> CRIT_4_3
                      [] ck = "4.4" -> CRIT_4_4
                      [] ck = "4.5" -> CRIT_4_5
                 ]]]
     ]]

\* app.py:74-80
AUTO_COMMENTS ==
    [keys |-> <<0, 1, 2, 3, 4>>,
     val |-> [r \in {0, 1, 2, 3, 4} |->
        CASE r = 0 ->
            \* app.py:75  "Bei der Hospitation war dieses Kriterium nicht erkennbar. M\u00F6gliche Ursache: Situations-/Phasenabh\u00E4ngigkeit."
            <<66, 101, 105, 32, 100, 101, 114, 32, 72, 111, 115, 112, 105, 116, 97, 116,
            105, 111, 110, 32, 119, 97, 114, 32, 100, 105, 101, 115, 101, 115, 32, 75, 114,
            105, 116, 101, 114, 105, 117, 109, 32, 110, 105, 99, 104, 116, 32, 101, 114,
            107, 101, 110, 110, 98, 97, 114, 46, 32, 77, 246, 103, 108, 105, 99, 104, 101,
            32, 85, 114, 115, 97, 99, 104, 101, 58, 32, 83, 105, 116, 117, 97, 116, 105,
            111, 110, 115, 45, 47, 80, 104, 97, 115, 101, 110, 97, 98, 104, 228, 110, 103,
            105, 103, 107, 101, 105, 116, 46>>
          [] r = 1 ->
              \* app.py:76  "Ansatzpunkte sind erkennbar. Eine Fokussierung auf klare Routinen/Transparenz k\u00F6nnte die Wirksamkeit erh\u00F6hen."
              <<65, 110, 115, 97, 116, 122, 112, 117, 110, 107, 116, 101, 32, 115, 105,
              110, 100, 32, 101, 114, 107, 101, 110, 110, 98, 97, 114, 46, 32, 69, 105,
              110, 101, 32, 70, 111, 107, 117, 115, 115, 105, 101, 114, 117, 110, 103, 32,
              97, 117, 102, 32, 107, 108, 97, 114, 101, 32, 82, 111, 117, 116, 105, 110,
              101, 110, 47, 84, 114, 97, 110, 115, 112, 97, 114, 101, 110, 122, 32, 107,
              246, 110, 110, 116, 101, 32, 100, 105, 101, 32, 87, 105, 114, 107, 115, 97,
              109, 107, 101, 105, 116, 32, 101, 114, 104, 246, 104, 101, 110, 46>>
          [] r = 2 ->
              \* app.py:77  "Grundlegend vorhanden. Durch Verbindlichkeit/Beispiele/Visualisierung weiter st\u00E4rken."
              <<71, 114, 117, 110, 100, 108, 101, 103, 101, 110, 100, 32, 118, 111, 114,
              104, 97, 110, 100, 101, 110, 46, 32, 68, 117, 114, 99, 104, 32, 86, 101, 114,
              98, 105, 110, 100, 108, 105, 99, 104, 107, 101, 105, 116, 47, 66, 101, 105,
              115, 112, 105, 101, 108, 101, 47, 86, 105, 115, 117, 97, 108, 105, 115, 105,
              101, 114, 117, 110, 103, 32, 119, 101, 105, 116, 101, 114, 32, 115, 116, 228,
              114, 107, 101, 110, 46>>
          [] r = 3 ->
              \* app.py:78  "\u00DCberwiegend gut umgesetzt. Punktuell l\u00E4sst sich die Wirkung noch durch Sch\u00FCleraktivierung vertiefen."
              <<220, 98, 101, 114, 119, 105, 101, 103, 101, 110, 100, 32, 103, 117, 116,
              32, 117, 109, 103, 101, 115, 101, 116, 122, 116, 46, 32, 80, 117, 110, 107,
              116, 117, 101, 108, 108, 32, 108, 228, 115, 115, 116, 32, 115, 105, 99, 104,
              32, 100, 105, 101, 32, 87, 105, 114, 107, 117, 110, 103, 32, 110, 111, 99,
              104, 32, 100, 117, 114, 99, 104, 32, 83, 99, 104, 252, 108, 101, 114, 97,
              107, 116, 105, 118, 105, 101, 114, 117, 110, 103, 32, 118, 101, 114, 116,
              105, 101, 102, 101, 110, 46>>
          [] r = 4 ->
              \* app.py:79  "Sehr \u00FCberzeugend umgesetzt; dient als Good-Practice-Beispiel."
              <<83, 101, 104, 114, 32, 252, 98, 101, 114, 122, 101, 117, 103, 101, 110,
              100, 32, 117, 109, 103, 101, 115, 101, 116, 122, 116, 59, 32, 100, 105, 101,
              110, 116, 32, 97, 108, 115, 32, 71, 111, 111, 100, 45, 80, 114, 97, 99, 116,
              105, 99, 101, 45, 66, 101, 105, 115, 112, 105, 101, 108, 46>>]]

\* ---------------------------------------------------------------------------
\* dict operations
\* ---------------------------------------------------------------------------
EmptyDict == [keys |-> << >>, val |-> [k \in {} |-> 0]]

\* k in d
Has(d, k) == k \in DOMAIN d.val

\* d.get(k, default)
DictGet(d, k, default) == IF Has(d, k) THEN d.val[k] ELSE default

\* d[k] = v : a new key is appended to the iteration order, an old one keeps its place
DictPut(d, k, v) ==
    [keys |-> IF Has(d, k) THEN d.keys ELSE Append(d.keys, k),
     val |-> [x \in (DOMAIN d.val) \cup {k} |-> IF x = k THEN v ELSE d.val[x]]]

\* the set of elements of a sequence
Range(s) == {s[i] : i \in 1..Len(s)}

\* position of x in the sequence s
Index(s, x) == CHOOSE i \in 1..Len(s) : s[i] = x

\* ---------------------------------------------------------------------------
\* float arithmetic, exact
\* ---------------------------------------------------------------------------
RECURSIVE GCD(_, _)
GCD(a, b) == IF b = 0 THEN a ELSE GCD(b, a % b)

\* n / d in lowest terms with a positive denominator (d # 0)
Rat(n, d) ==
    LET g == GCD(IF n < 0 THEN 0 - n ELSE n, IF d < 0 THEN 0 - d ELSE d)
        s == IF d < 0 THEN 0 - 1 ELSE 1
    IN  [n |-> (s * n) \div g, d |-> (s * d) \div g]

RZero == [n |-> 0, d |-> 1]
ROne == [n |-> 1, d |-> 1]

RAdd(x, y) == Rat(x.n * y.d + y.n * x.d, x.d * y.d)
RMul(x, y) == Rat(x.n * y.n, x.d * y.d)
RDiv(x, y) == Rat(x.n * y.d, x.d * y.n)

\* sum(ratings)
RECURSIVE SumSeq(_)
SumSeq(s) == IF Len(s) = 0 THEN 0 ELSE s[1] + SumSeq(SubSeq(s, 2, Len(s)))

\* ---------------------------------------------------------------------------
\* dataclasses (app.py:94-117)
\* ---------------------------------------------------------------------------
CriterionResult == [rating |-> 0, comment |-> TXT_EMPTY]

ModuleResult(mk, criteria) == [module_key |-> mk, criteria |-> criteria]

\* ObservationForm() with the defaults of the dataclass
ObservationForm ==
    [date |-> TXT_EMPTY, colleague |-> TXT_EMPTY, subject |-> TXT_EMPTY,
     grade |-> TXT_EMPTY, topic |-> TXT_EMPTY, observer |-> TXT_EMPTY,
     school |-> TXT_EMPTY, modules |-> EmptyDict, strengths |-> TXT_EMPTY,
     next_steps |-> TXT_EMPTY, profile_focus |-> << >>, weights |-> EmptyDict]

\* ---------------------------------------------------------------------------
\* init_form (app.py:120-130)
\* ---------------------------------------------------------------------------
\* the inner loop: one CriterionResult() per criterion of the catalog module
RECURSIVE InitCriteria(_, _, _)
InitCriteria(cks, i, acc) ==
    IF i > Len(cks) THEN acc
    ELSE InitCriteria(cks, i + 1, DictPut(acc, cks[i], CriterionResult))

RECURSIVE InitModules(_, _, _)
InitModules(selected_modules, i, acc) ==
    IF i > Len(selected_modules) THEN acc
    ELSE LET mk == selected_modules[i]
             mod == ModuleResult(mk, InitCriteria(BLI_DATA.val[mk].criteria.keys, 1, EmptyDict))
         IN  InitModules(selected_modules, i + 1, DictPut(acc, mk, mod))

\* init_form without its inner loop: the modules get no criteria
RECURSIVE InitModulesBare(_, _, _)
InitModulesBare(selected_modules, i, acc) ==
    IF i > Len(selected_modules) THEN acc
    ELSE InitModulesBare(selected_modules, i + 1,
             DictPut(acc, selected_modules[i], ModuleResult(selected_modules[i], EmptyDict)))

init_form_no_criteria(selected_modules, today) ==
    [ObservationForm EXCEPT !.date = today,
                            !.modules = InitModulesBare(selected_modules, 1, EmptyDict)]

init_form(selected_modules, today) ==
    [ObservationForm EXCEPT !.date = today,
                            !.modules = InitModules(selected_modules, 1, EmptyDict)]

\* ---------------------------------------------------------------------------
\* compute_scores (app.py:132-143)
\* ---------------------------------------------------------------------------
\* ratings = [c.rating for c in mod.criteria.values()]
Ratings(mod) ==
    [i \in 1..Len(mod.criteria.keys) |-> mod.criteria.val[mod.criteria.keys[i]].rating]

\* ModuleAvg with // in place of /
ModuleAvg_floor_division(mod) ==
    LET ratings == Ratings(mod)
    IN  IF Len(ratings) # 0 THEN Rat(SumSeq(ratings) \div Len(ratings), 1) ELSE RZero

\* avg = sum(ratings) / len(ratings) if ratings else 0.0
ModuleAvg(mod) ==
    LET ratings == Ratings(mod)
    IN  IF Len(ratings) # 0 THEN Rat(SumSeq(ratings), Len(ratings)) ELSE RZero

\* the loop over form.modules.items(), from the i-th module on
RECURSIVE ScoreLoop(_, _, _)
ScoreLoop(form, i, acc) ==
    IF i > Len(form.modules.keys) THEN acc
    ELSE LET mk == form.modules.keys[i]
             avg == ModuleAvg(form.modules.val[mk])
             w == DictGet(form.weights, mk, ROne)
         IN  ScoreLoop(form, i + 1,
                 [per_module |-> DictPut(acc.per_module, mk, avg),
                  weighted_sum |-> RAdd(acc.weighted_sum, RMul(avg, w)),
                  weight_total |-> RAdd(acc.weight_total, w)])

\* sum(form.weights.values())
RECURSIVE SumWeights(_, _)
SumWeights(weights, i) ==
    IF i > Len(weights.keys) THEN RZero
    ELSE RAdd(weights.val[weights.keys[i]], SumWeights(weights, i + 1))

\* compute_scores normalising by every weight of the record, not only the weights of
\* the modules it holds
compute_scores_all_weights(form) ==
    LET acc == ScoreLoop(form, 1,
                   [per_module |-> EmptyDict, weighted_sum |-> RZero, weight_total |-> RZero])
        total == SumWeights(form.weights, 1)
    IN  [per_module |-> acc.per_module,
         overall |-> IF total.n # 0 THEN RDiv(acc.weighted_sum, total) ELSE RZero]

\* the plain mean of the per-module averages
RECURSIVE SumAverages(_, _)
SumAverages(per_module, i) ==
    IF i > Len(per_module.keys) THEN RZero
    ELSE RAdd(per_module.val[per_module.keys[i]], SumAverages(per_module, i + 1))

\* compute_scores falling back to the unweighted mean when the weights add up to 0
compute_scores_unweighted_fallback(form) ==
    LET acc == ScoreLoop(form, 1,
                   [per_module |-> EmptyDict, weighted_sum |-> RZero, weight_total |-> RZero])
        n == Len(acc.per_module.keys)
    IN  [per_module |-> acc.per_module,
         overall |-> IF acc.weight_total.n # 0
                     THEN RDiv(acc.weighted_sum, acc.weight_total)
                     ELSE IF n # 0 THEN RDiv(SumAverages(acc.per_module, 1), Rat(n, 1))
                     ELSE RZero]

compute_scores(form) ==
    LET acc == ScoreLoop(form, 1,
                   [per_module |-> EmptyDict, weighted_sum |-> RZero, weight_total |-> RZero])
    IN  [per_module |-> acc.per_module,
         overall |-> IF acc.weight_total.n # 0
                     THEN RDiv(acc.weighted_sum, acc.weight_total)
                     ELSE RZero]

\* ---------------------------------------------------------------------------
\* text formatting
\* ---------------------------------------------------------------------------
\* str(n) for n >= 0
RECURSIVE StrNat(_)
StrNat(n) == IF n < 10 THEN <<48 + n>> ELSE StrNat(n \div 10) \o <<48 + (n % 10)>>

\* str(n)
StrInt(n) == IF n < 0 THEN <<45>> \o StrNat(0 - n) ELSE StrNat(n)

\* x * 100 lies exactly half way between two integers
IsTie(x) == 2 * ((100 * x.n) % x.d) = x.d

\* The digits of f"{x:.2f}" for x >= 0, as an integer. The code formats the double it
\* computed for x. x is no double unless its denominator is a power of 2; the double
\* differs from x by rounding errors far smaller than the distance of any x that is
\* not a tie from the nearest tie, so off a tie the digits are those of x rounded to
\* the nearest hundredth. On a tie the double decides: it lies beside x (0.075 is
\* stored below, 0.005 above) or is x itself and is rounded half to even. up says that
\* the upper hundredth is printed.
Cents(x, up) ==
    LET q == (100 * x.n) \div x.d
        r2 == 2 * ((100 * x.n) % x.d)
    IN  IF r2 > x.d \/ (IsTie(x) /\ up) THEN q + 1 ELSE q

\* f"{x:.2f}" for x >= 0
Fmt2(x, up) ==
    LET c == Cents(x, up)
    IN  StrNat(c \div 100) \o TXT_DOT \o <<48 + ((c \div 10) % 10), 48 + (c % 10)>>

\* The ways the scores of a result of compute_scores may be printed: one choice for
\* each per-module average and one for "overall", open only for a tie.
Roundings(scores) ==
    LET keys == Range(scores.per_module.keys) \cup {"overall"}
        ties == {k \in keys : IsTie(IF k = "overall" THEN scores.overall
                                    ELSE scores.per_module.val[k])}
    IN  {[k \in keys |-> k \in above] : above \in SUBSET ties}

\* sep.join(keys)
RECURSIVE Join(_, _)
Join(ks, sep) ==
    IF Len(ks) = 0 THEN TXT_EMPTY
    ELSE IF Len(ks) = 1 THEN Chars(ks[1])
    ELSE Chars(ks[1]) \o sep \o Join(SubSeq(ks, 2, Len(ks)), sep)

\* concatenation of a sequence of sequences
RECURSIVE Flatten(_)
Flatten(ss) == IF Len(ss) = 0 THEN << >> ELSE ss[1] \o Flatten(SubSeq(ss, 2, Len(ss)))

Ok(v) == [status |-> "ok", value |-> v]
Raise(e) == [status |-> "raise", exc |-> e]

\* BLI_DATA[mk] or BLI_DATA[mk]["criteria"][ck] raises KeyError for some module or
\* criterion of the record (app.py:181, 190, 226, 229, 268, 271)
CatalogKeyError(form) ==
    \E mk \in Range(form.modules.keys) :
        \/ ~Has(BLI_DATA, mk)
        \/ \E ck \in Range(form.modules.val[mk].criteria.keys) :
               ~Has(BLI_DATA.val[mk].criteria, ck)

\* ---------------------------------------------------------------------------
\* export_docx (app.py:145-211). The document is the sequence of its block
\* elements; fonts, alignment and bold runs are not represented.
\* ---------------------------------------------------------------------------
Heading(text, level) == [kind |-> "heading", level |-> level, text |-> text]
Paragraph(text) == [kind |-> "paragraph", text |-> text]
Table(rows) == [kind |-> "table", rows |-> rows]

\* app.py:153-177
DocxHeader(form) ==
    <<Heading(TXT_TITLE, 1),
      Paragraph(TXT_DATUM \o form.date \o TXT_GAP \o TXT_KOLLEGIN \o form.colleague
                \o TXT_GAP \o TXT_BEOBACHTERIN \o form.observer),
      Paragraph(TXT_FACH \o form.subject \o TXT_SLASH \o form.grade \o TXT_SLASH
                \o form.topic)>>
    \o (IF Len(form.school) # 0 THEN <<Paragraph(TXT_SCHULE \o form.school)>> ELSE << >>)
    \o (IF Len(form.profile_focus) # 0
        THEN <<Paragraph(TXT_FOKUS \o Join(form.profile_focus, TXT_COMMA))>> ELSE << >>)

\* app.py:180-194, one module
DocxModule(mk, mod) ==
    <<Heading(Chars(mk) \o TXT_DASH \o BLI_DATA.val[mk].title, 2),
      Table(<< <<TXT_KRITERIUM, TXT_BEWERTUNG_HDR, TXT_KOMMENTAR_HDR>> >>
            \o [i \in 1..Len(mod.criteria.keys) |->
                   LET ck == mod.criteria.keys[i]
                       cres == mod.criteria.val[ck]
                   IN  <<Chars(ck) \o TXT_SPACE \o BLI_DATA.val[mk].criteria.val[ck],
                         StrInt(cres.rating),
                         cres.comment>>]),
      Paragraph(TXT_EMPTY)>>

\* app.py:196-200
DocxFreeText(form) ==
    <<Heading(TXT_STAERKEN, 2),
      Paragraph(IF Len(form.strengths) # 0 THEN form.strengths ELSE TXT_HYPHEN),
      Heading(TXT_SCHRITTE, 2),
      Paragraph(IF Len(form.next_steps) # 0 THEN form.next_steps ELSE TXT_HYPHEN)>>

\* app.py:202-207, the lines of the score summary from compute_scores' result
SummaryLines(scores, up) ==
    [i \in 1..Len(scores.per_module.keys) |->
        LET mk == scores.per_module.keys[i]
        IN  Chars(mk) \o TXT_COLON \o Fmt2(scores.per_module.val[mk], up[mk]) \o TXT_OF4]
    \o <<TXT_GESAMT \o Fmt2(scores.overall, up["overall"]) \o TXT_OF4>>

DocxSummary(form, up) ==
    LET lines == SummaryLines(compute_scores(form), up)
    IN  <<Heading(TXT_SCORES, 2)>> \o [i \in 1..Len(lines) |-> Paragraph(lines[i])]

export_docx(form, up) ==
    IF CatalogKeyError(form) THEN Raise("KeyError")
    ELSE Ok(DocxHeader(form)
            \o Flatten([i \in 1..Len(form.modules.keys) |->
                   DocxModule(form.modules.keys[i], form.modules.val[form.modules.keys[i]])])
            \o DocxFreeText(form)
            \o DocxSummary(form, up))

\* ---------------------------------------------------------------------------
\* export_json (app.py:213-239). The value is the dict handed to json.dumps; its
\* serialisation to UTF-8 text is not represented.
\* ---------------------------------------------------------------------------
JsonModule(mk, mod) ==
    [title |-> BLI_DATA.val[mk].title,
     criteria |->
        [keys |-> mod.criteria.keys,
         val |-> [ck \in DOMAIN mod.criteria.val |->
                    [text |-> BLI_DATA.val[mk].criteria.val[ck],
                     rating |-> mod.criteria.val[ck].rating,
                     comment |-> mod.criteria.val[ck].comment]]]]

export_json(form) ==
    IF CatalogKeyError(form) THEN Raise("KeyError")
    ELSE Ok([date |-> form.date, colleague |-> form.colleague, subject |-> form.subject,
             grade |-> form.grade, topic |-> form.topic, observer |-> form.observer,
             school |-> form.school, profile_focus |-> form.profile_focus,
             weights |-> form.weights,
             modules |-> [keys |-> form.modules.keys,
                          val |-> [mk \in DOMAIN form.modules.val |->
                                     JsonModule(mk, form.modules.val[mk])]],
             strengths |-> form.strengths, next_steps |-> form.next_steps])

\* ---------------------------------------------------------------------------
\* export_pdf (app.py:241-301), with fpdf2 (app.py:4) and the core font Helvetica
\* (app.py:246, 249). A core font has the character set latin-1: FPDF.cell and
\* FPDF.multi_cell raise FPDFUnicodeEncodingException for a text with a character
\* outside it. The function is the sequence of its steps, each a text handed to
\* cell/multi_cell or a catalog lookup that raises KeyError; the first step that
\* fails decides the exception. No PDF is ever returned: see export_pdf.
\* ---------------------------------------------------------------------------
\* the characters a core font can render
Latin1(text) == \A i \in 1..Len(text) : text[i] < 256

StepText(text) == [kind |-> "text", text |-> text]
StepKeyError == [kind |-> "KeyError", text |-> TXT_EMPTY]

\* app.py:270-275, the criteria of one module
PdfCriteria(mk, mod) ==
    Flatten([i \in 1..Len(mod.criteria.keys) |->
        LET ck == mod.criteria.keys[i]
            cres == mod.criteria.val[ck]
        IN  IF ~Has(BLI_DATA.val[mk].criteria, ck) THEN <<StepKeyError>>
            ELSE <<StepText(Chars(ck) \o TXT_SPACE \o BLI_DATA.val[mk].criteria.val[ck]),
                   StepText(TXT_PDF_BEWERTUNG \o StrInt(cres.rating) \o TXT_PDF_OF4)>>
                 \o (IF Len(cres.comment) # 0
                     THEN <<StepText(TXT_PDF_KOMMENTAR \o cres.comment)>> ELSE << >>)])

\* app.py:266-276, one module
PdfModule(mk, mod) ==
    IF ~Has(BLI_DATA, mk) THEN <<StepKeyError>>
    ELSE <<StepText(Chars(mk) \o TXT_DASH \o BLI_DATA.val[mk].title)>> \o PdfCriteria(mk, mod)

\* app.py:247-263: the title and the metadata block
PdfHeader(form) ==
    <<StepText(TXT_TITLE),
      StepText(TXT_DATUM \o form.date),
      StepText(TXT_KOLLEGIN \o form.colleague),
      StepText(TXT_BEOBACHTERIN \o form.observer),
      StepText(TXT_FACH \o form.subject \o TXT_SLASH \o form.grade \o TXT_SLASH \o form.topic)>>
    \o (IF Len(form.school) # 0 THEN <<StepText(TXT_SCHULE \o form.school)>> ELSE << >>)
    \o (IF Len(form.profile_focus) # 0
        THEN <<StepText(TXT_FOKUS \o Join(form.profile_focus, TXT_COMMA))>> ELSE << >>)

\* app.py:265-276: the modules
PdfModules(form) ==
    Flatten([i \in 1..Len(form.modules.keys) |->
        PdfModule(form.modules.keys[i], form.modules.val[form.modules.keys[i]])])

\* app.py:278-298: strengths, next steps and the score summary
PdfTail(form, up) ==
    <<StepText(TXT_STAERKEN),
      StepText(IF Len(form.strengths) # 0 THEN form.strengths ELSE TXT_HYPHEN),
      StepText(TXT_SCHRITTE),
      StepText(IF Len(form.next_steps) # 0 THEN form.next_steps ELSE TXT_HYPHEN),
      StepText(TXT_SCORES)>>
    \o LET lines == SummaryLines(compute_scores(form), up)
       IN  [i \in 1..Len(lines) |-> StepText(lines[i])]

\* the exception of the first failing step, or "none"
RECURSIVE FirstFailure(_, _)
FirstFailure(steps, i) ==
    IF i > Len(steps) THEN "none"
    ELSE IF steps[i].kind = "KeyError" THEN "KeyError"
    ELSE IF ~Latin1(steps[i].text) THEN "FPDFUnicodeEncodingException"
    ELSE FirstFailure(steps, i + 1)

\* With every text rendered the function reaches its return statement (app.py:301):
\* fpdf2's FPDF.output returns a bytearray, which has no encode, so the statement
\* raises AttributeError.
export_pdf(form, up) ==
    LET e1 == FirstFailure(PdfHeader(form), 1)
        e2 == FirstFailure(PdfModules(form), 1)
        e3 == FirstFailure(PdfTail(form, up), 1)
    IN  IF e1 # "none" THEN Raise(e1)
        ELSE IF e2 # "none" THEN Raise(e2)
        ELSE IF e3 # "none" THEN Raise(e3)
        ELSE Raise("AttributeError")

\* AUTO_COMMENTS.get(rating, "") (app.py:389)
default_comment(rating) == DictGet(AUTO_COMMENTS, rating, TXT_EMPTY)

\* ---------------------------------------------------------------------------
\* profiles (app.py:84-91)
\* ---------------------------------------------------------------------------
\* a weights dict over all four modules, in the order of its literal
Weights4(w1, w2, w3, w4) ==
    [keys |-> <<"M1", "M2", "M3", "M4">>,
     val |-> [mk \in {"M1", "M2", "M3", "M4"} |->
                CASE mk = "M1" -> w1 [] mk = "M2" -> w2 [] mk = "M3" -> w3 [] mk = "M4" -> w4]]

DEFAULT_PROFILES ==
    [keys |-> <<PROFILE_NEU, PROFILE_MUELLER, PROFILE_SCHMIDT>>,
     val |-> [p \in {PROFILE_NEU, PROFILE_MUELLER, PROFILE_SCHMIDT} |->
        CASE p = PROFILE_NEU ->
                [focus |-> <<"M1", "M3">>,
                 weights |-> Weights4(ROne, ROne, Rat(12, 10), ROne)]
          [] p = PROFILE_MUELLER ->
                [focus |-> <<"M2">>,
                 weights |-> Weights4(ROne, Rat(13, 10), ROne, ROne)]
          [] p = PROFILE_SCHMIDT ->
                [focus |-> <<"M1", "M4">>,
                 weights |-> Weights4(Rat(12, 10), ROne, ROne, Rat(12, 10))]]]

\* ---------------------------------------------------------------------------
\* text and date helpers of the script
\* ---------------------------------------------------------------------------
\* str.isspace for one character
IsSpace(c) ==
    \/ c \in 9..13 \/ c \in 28..32 \/ c = 133 \/ c = 160 \/ c = 5760
    \/ c \in 8192..8202 \/ c \in {8232, 8233, 8239, 8287, 12288}

\* str.strip()
RECURSIVE LStrip(_)
LStrip(t) == IF Len(t) # 0 /\ IsSpace(t[1]) THEN LStrip(SubSeq(t, 2, Len(t))) ELSE t

RECURSIVE RStrip(_)
RStrip(t) == IF Len(t) # 0 /\ IsSpace(t[Len(t)]) THEN RStrip(SubSeq(t, 1, Len(t) - 1)) ELSE t

Strip(t) == RStrip(LStrip(t))

\* n as decimal digits, zero-padded to the given width
RECURSIVE Pad(_, _)
Pad(t, width) == IF Len(t) >= width THEN t ELSE Pad(<<48>> \o t, width)

\* date.strftime("%Y-%m-%d") of the date <<year, month, day>>
StrfDate(d) == Pad(StrNat(d[1]), 4) \o <<45>> \o Pad(StrNat(d[2]), 2) \o <<45>> \o Pad(StrNat(d[3]), 2)

\* ---------------------------------------------------------------------------
\* bounds and inputs
\* ---------------------------------------------------------------------------
\* user interactions per session
MaxSteps == 2
\* runs per session that an interaction stops before their end
MaxStops == 1
\* in-place edits of a record handed to the pure functions
MaxEdits == 1
\* how far outside 0..4 the rating handed to the comment lookup may lie
OutOfRange == 1

\* lowest and highest rating of the slider (app.py:386)
MinRating == 0
MaxRating == 4
RatingRange == MinRating..MaxRating
\* the positions the user moves a slider to: its ends and 1
SliderInputs == {MinRating, 1, MaxRating}

\* datetime.today() (app.py:122, 346) and another day picked in the date input
Today == <<2025, 3, 7>>
DateInputs == {Today, <<2024, 11, 30>>}

\* texts typed into the text inputs: nothing, or "Gut"
USER_TEXT == <<71, 117, 116>>
UserTexts == {TXT_EMPTY, USER_TEXT}

\* names typed for a new profile: nothing, a blank, or "Kim"
USER_NAME == <<75, 105, 109>>
NewNames == {TXT_EMPTY, TXT_SPACE, USER_NAME}

\* the value entered in a weight input (min 0.0, max 3.0, app.py:330-334): the
\* lowest one, which takes the module out of the overall score
WeightInputs == {RZero}

\* all_modules = list(BLI_DATA.keys()) (app.py:320)
all_modules == BLI_DATA.keys

\* the text inputs the user fills in (app.py:347-354): one whose arguments never change
\* and the one whose value= follows the profile
MetaFields == {"school", "colleague"}

\* the criteria whose slider or comment the user touches
EditedCriteria == {"1.1", "3.1"}

\* ---------------------------------------------------------------------------
\* state
\* ---------------------------------------------------------------------------
VARIABLES
    session_keys,       \* the keys present in st.session_state
    profiles,           \* st.session_state["profiles"]
    form,               \* st.session_state["form"]; in SpecPure the record under test
    form_modules,       \* st.session_state["form_modules"]
    w,                  \* what the page holds for the script's widgets
    wid,                \* the identity of the widget the page shows at each place
    keyed,              \* whether the Streamlit build identifies a widget by its key=
    keeps,              \* whether it keeps the state of a widget that a run did not render
    pc,                 \* where the last run ended: "start" (no run yet), "head" (stopped
                        \* in app.py:304-354), "loop" (stopped in 375-399), "tail" (stopped
                        \* in 403-419), "done" (not stopped); "pure" in SpecPure
    steps,              \* user interactions (Spec) or edits (SpecPure) so far
    stops,              \* runs stopped for a rerun so far
    live,               \* the metrics the page shows, by column (app.py:405-411)
    docx_out,           \* docx_bytes, the data of the download button (app.py:417-419)
    pdf_out,            \* pdf_bytes (app.py:421)
    ret,                \* SpecPure: the last call and what it returned
    earlier             \* SpecPure: what compute_scores returned right before the last
                        \* edit, if it was called then

vars ==
    <<session_keys, profiles, form, form_modules, w, wid, keyed, keeps, pc, steps, stops,
      live, docx_out, pdf_out, ret, earlier>>

NotRun == [status |-> "none"]
NoRet == [op |-> "none", arg |-> 0, result |-> NotRun]

\* The identity of a widget. Streamlit derives it from the widget's arguments, value=
\* among them; builds that identify a widget by its key= leave value= out for a widget
\* that has one. app.py does not say which build runs it.
WidgetId(has_key, default) ==
    IF has_key /\ keyed THEN [by |-> "key"] ELSE [by |-> "value", value |-> default]

\* the value a widget returns: what the page holds for its identity, or its default
\* (value=) when the page holds nothing for it. held: the values the page holds for
\* the widget at this place of the script, by identity
WidgetValue(held, id, default) == IF id \in DOMAIN held THEN held[id] ELSE default

\* a widget call of a run: its position among the widget calls of the run, the
\* identity it renders the widget with and the value it returns
Render(at, id, v) == [at |-> at, id |-> id, v |-> v]
\* a widget that the run does not get to however far it runs
NotRendered == [at |-> 0, id |-> [by |-> "none"], v |-> 0]

\* the run has made the widget call r when it ends after its k-th widget call
Rendered(r, k) == r.at # 0 /\ r.at <= k

\* What the page holds for the widget at one place of the script after a run that
\* ended after its k-th widget call. A run that is stopped for a rerun leaves the state
\* of the widgets it did not get to as it is: the browser still shows them and sends
\* their values with the next rerun. When a run is not stopped, builds differ in what
\* becomes of the state of a widget, or of an earlier identity of it, that the run did
\* not render: it is dropped or kept.
PageState(held, r, k, done) ==
    [i \in (IF done /\ ~keeps THEN {} ELSE DOMAIN held)
           \cup (IF Rendered(r, k) THEN {r.id} ELSE {}) |->
        IF Rendered(r, k) /\ i = r.id THEN r.v ELSE held[i]]

\* the identity of the widget the page shows at that place after the run; old: the
\* one it showed before
PageId(old, r, k, done) ==
    IF Rendered(r, k) THEN r.id ELSE IF done THEN [by |-> "none"] ELSE old

\* The widgets before the first run: the page holds nothing. The date input and the
\* text inputs of observer, school, subject, grade and topic are rendered by every run
\* with the same arguments (app.py:346-354), so the page holds one value for each.
NoWidgets ==
    [selected_profile |-> [i \in {} |-> 0], new_name |-> [i \in {} |-> 0],
     checked |-> [mk \in Range(all_modules) |-> [i \in {} |-> 0]],
     weights |-> [mk \in Range(all_modules) |-> [i \in {} |-> 0]],
     colleague |-> [i \in {} |-> 0],
     date |-> Today, observer |-> TXT_EMPTY, school |-> TXT_EMPTY,
     subject |-> TXT_EMPTY, grade |-> TXT_EMPTY, topic |-> TXT_EMPTY,
     rating |-> [mk \in Range(all_modules) |->
                   [ck \in Range(BLI_DATA.val[mk].criteria.keys) |-> [i \in {} |-> 0]]],
     comment |-> [mk \in Range(all_modules) |->
                    [ck \in Range(BLI_DATA.val[mk].criteria.keys) |-> [i \in {} |-> 0]]],
     strengths |-> [i \in {} |-> 0], next_steps |-> [i \in {} |-> 0]]

\* the page before the first run shows no widget
NoWidgetIds ==
    [selected_profile |-> [by |-> "none"], new_name |-> [by |-> "none"],
     checked |-> [mk \in Range(all_modules) |-> [by |-> "none"]],
     weights |-> [mk \in Range(all_modules) |-> [by |-> "none"]],
     save |-> [by |-> "none"],
     date |-> [by |-> "none"], observer |-> [by |-> "none"],
     colleague |-> [by |-> "none"], school |-> [by |-> "none"],
     subject |-> [by |-> "none"], grade |-> [by |-> "none"], topic |-> [by |-> "none"],
     rating |-> [mk \in Range(all_modules) |->
                   [ck \in Range(BLI_DATA.val[mk].criteria.keys) |-> [by |-> "none"]]],
     comment |-> [mk \in Range(all_modules) |->
                    [ck \in Range(BLI_DATA.val[mk].criteria.keys) |-> [by |-> "none"]]],
     strengths |-> [by |-> "none"], next_steps |-> [by |-> "none"]]

Init ==
    /\ session_keys = {}
    /\ profiles = EmptyDict
    /\ form = ObservationForm
    /\ form_modules = << >>
    /\ w = NoWidgets
    /\ wid = NoWidgetIds
    /\ keyed \in BOOLEAN
    /\ keeps \in BOOLEAN
    /\ pc = "start"
    /\ steps = 0
    /\ stops = 0
    /\ live = NotRun
    /\ docx_out = NotRun
    /\ pdf_out = NotRun
    /\ ret = NoRet
    /\ earlier = NotRun

\* ---------------------------------------------------------------------------
\* one run of the script (app.py:90-91, 304-427)
\* ---------------------------------------------------------------------------
\* focus: the checked modules, in catalog order (app.py:318-325)
Focus(checked) ==
    LET Checked(mk) == checked[mk]
    IN  SelectSeq(all_modules, Checked)

\* selected_modules = focus or list(BLI_DATA.keys()) (app.py:356)
SelectedModules(focus) == IF Len(focus) # 0 THEN focus ELSE all_modules

\* the condition without its second half: a changed selection is not noticed
NeedsInit_no_focus_check(keys, stored, selected) == "form" \notin keys

\* the condition of app.py:359
NeedsInit(keys, stored, selected) ==
    \/ "form" \notin keys
    \/ "form_modules" \notin keys
    \/ stored # selected

\* the number of the pass of the rating loop (app.py:376-394) that handles criterion ck
\* of module mk
LoopIndex(selected, mk, ck) ==
    SumSeq([i \in 1..(Index(selected, mk) - 1) |-> Len(BLI_DATA.val[selected[i]].criteria.keys)])
    + Index(BLI_DATA.val[mk].criteria.keys, ck)

\* The passes of the rating loop that find no result to read in record f:
\* form.modules[mk].criteria[ck] raises KeyError (app.py:386).
LoopFailures(f, selected) ==
    {LoopIndex(selected, p[1], p[2]) :
        p \in {q \in UNION {{<<mk, ck>> : ck \in Range(BLI_DATA.val[mk].criteria.keys)} :
                                mk \in Range(selected)} :
                  ~(Has(f.modules, q[1]) /\ Has(f.modules.val[q[1]].criteria, q[2]))}}

\* app.py:385-394 for one criterion whose stored result is old: the calls of the slider
\* and the text area, made as the at-th and the next widget call of the run. wf: what
\* the page holds and sends
RatedCriterion(wf, mk, ck, old, at) ==
    LET rating == WidgetValue(wf.rating[mk][ck], WidgetId(TRUE, old.rating), old.rating)
        dc == default_comment(rating)
        comment_default == IF Len(old.comment) # 0 THEN old.comment ELSE dc
        comment == WidgetValue(wf.comment[mk][ck], WidgetId(TRUE, comment_default),
                               comment_default)
    IN  [rating |-> Render(at, WidgetId(TRUE, old.rating), rating),
         comment |-> Render(at + 1, WidgetId(TRUE, comment_default), comment)]

\* app.py:376-394: the loop over selected_modules and the catalog's criteria, its first
\* widget call being the one after the after-th of the run. The loop ends with the
\* exception of its pass number fail_at, if that is not 0.
RatedModules(wf, f, selected, after, fail_at) ==
    [mk \in Range(selected) |->
        [ck \in Range(BLI_DATA.val[mk].criteria.keys) |->
            IF fail_at = 0 \/ LoopIndex(selected, mk, ck) < fail_at
            THEN RatedCriterion(wf, mk, ck, f.modules.val[mk].criteria.val[ck],
                                after + 2 * LoopIndex(selected, mk, ck) - 1)
            ELSE [rating |-> NotRendered, comment |-> NotRendered]]]

\* app.py:403-411: the metrics of a run, one per selected module and the overall one,
\* each shown by its own st.metric call in a column of its own
LiveScores(f, selected, up) ==
    LET scores == compute_scores(f)
    IN  [i \in 1..Len(selected) |->
            Fmt2(scores.per_module.val[selected[i]], up[selected[i]]) \o TXT_OF4]
        \o <<Fmt2(scores.overall, up["overall"]) \o TXT_OF4>>

\* The metrics on the page after a run that has made the first shown of its st.metric
\* calls. old: what the page showed before, new: the metrics of the run. A run that is
\* stopped leaves in the columns it did not get to what they showed; when a run is not
\* stopped, the page shows what that run has shown and nothing else.
MetricsOnPage(old, new, shown, done) ==
    IF done THEN (IF shown = 0 THEN NotRun ELSE [status |-> "ok", metrics |-> new])
    ELSE IF shown = 0 THEN old
    ELSE LET before == IF old.status = "ok" THEN old.metrics ELSE << >>
             columns == IF Len(before) > shown THEN Len(before) ELSE shown
         IN  [status |-> "ok",
              metrics |-> [i \in 1..columns |-> IF i <= shown THEN new[i] ELSE before[i]]]

\* The widget calls after which a run may end. Streamlit takes the user's input while
\* the script runs and stops the script at its next st.* call; the code between a
\* widget call and the st.* call that follows it still runs. A run that nothing stops
\* ends after its last call, with the exception that it raises. The first run can be
\* stopped only once the page shows a widget. n: the interactions made when the run
\* starts; the one that stops it is still to come.
StopPoints(last, n) ==
    {last} \cup (IF n < MaxSteps /\ stops < MaxStops
                 THEN (IF pc = "start" THEN 1 ELSE 0)..(last - 1) ELSE {})

\* One run of the script. wf: what the page holds and sends with the rerun request,
\* save: whether "Profil speichern" was clicked, n: the interactions so far. The widget
\* calls are numbered in the order the script makes them; the run ends after its k-th
\* widget call, and what the script has stored in st.session_state by then stays.
Run(wf, save, n) ==
    /\ steps' = n
       \* app.py:90-91, 309
    /\ \E profiles0 \in {IF "profiles" \in session_keys THEN profiles ELSE DEFAULT_PROFILES} :
       \* app.py:310
       \E selected_profile \in {WidgetValue(wf.selected_profile,
                                            WidgetId(FALSE, profiles0.keys), profiles0.keys[1])} :
       \E is_new \in {selected_profile = PROFILE_NEU} :
       \* app.py:313 is one more widget call
       \E more \in {IF is_new THEN 1 ELSE 0} :
       \E new_name \in {IF is_new
                        THEN WidgetValue(wf.new_name, WidgetId(FALSE, TXT_EMPTY), TXT_EMPTY)
                        ELSE TXT_EMPTY} :
       \* app.py:315-334
       \E focus_default \in {profiles0.val[selected_profile].focus} :
       \E weights_default \in {profiles0.val[selected_profile].weights} :
       \E checked_default \in {[mk \in Range(all_modules) |-> mk \in Range(focus_default)]} :
       \E weight_default \in {[mk \in Range(all_modules) |->
                                  DictGet(weights_default, mk, ROne)]} :
       \E checked \in {[mk \in Range(all_modules) |->
                          WidgetValue(wf.checked[mk], WidgetId(FALSE, checked_default[mk]),
                                      checked_default[mk])]} :
       \E weight \in {[mk \in Range(all_modules) |->
                         WidgetValue(wf.weights[mk], WidgetId(FALSE, weight_default[mk]),
                                     weight_default[mk])]} :
       \E focus \in {Focus(checked)} :
       \E weights \in {[keys |-> all_modules, val |-> weight]} :
       \* app.py:339-340
       \E key \in {IF is_new /\ Len(Strip(new_name)) # 0 THEN Strip(new_name)
                   ELSE selected_profile} :
       \E saved \in {DictPut(profiles0, key,
                         [focus |-> IF Len(focus) # 0 THEN focus ELSE focus_default,
                          weights |-> weights])} :
       \* app.py:349
       \E colleague_default \in {IF is_new /\ Len(new_name) # 0 THEN new_name
                                 ELSE selected_profile} :
       \E colleague \in {WidgetValue(wf.colleague, WidgetId(FALSE, colleague_default),
                                     colleague_default)} :
       \* app.py:356-372
       \E selected \in {SelectedModules(focus)} :
       \E rebuild \in {NeedsInit(session_keys, form_modules, selected)} :
       \E form0 \in {[(IF rebuild THEN init_form(selected, StrfDate(Today)) ELSE form) EXCEPT
                         !.date = StrfDate(wf.date),
                         !.colleague = colleague,
                         !.subject = wf.subject,
                         !.grade = wf.grade,
                         !.topic = wf.topic,
                         !.observer = wf.observer,
                         !.school = wf.school,
                         !.profile_focus = selected,
                         !.weights = weights]} :
       \* app.py:354 is the widget call number topic_at, app.py:399 number next_at
       \E topic_at \in {17 + more} :
       \E failures \in {LoopFailures(form0, selected)} :
       \E fail_at \in {IF failures = {} THEN 0
                       ELSE CHOOSE j \in failures : \A i \in failures : j <= i} :
       \E rated \in {RatedModules(wf, form0, selected, topic_at, fail_at)} :
       \E next_at \in {topic_at + 2
                       + 2 * SumSeq([i \in 1..Len(selected) |->
                                        Len(BLI_DATA.val[selected[i]].criteria.keys)])} :
       \* app.py:398-399: text areas without key=, whose value= is the stored text
       \E strengths \in {WidgetValue(wf.strengths, WidgetId(FALSE, form0.strengths),
                                     form0.strengths)} :
       \E next_steps \in {WidgetValue(wf.next_steps, WidgetId(FALSE, form0.next_steps),
                                      form0.next_steps)} :
       \* the record when the script has stored all that the widgets returned
       \* (app.py:393, 394, 400, 401)
       \E form1 \in {[form0 EXCEPT
                         !.modules.val = [mk \in DOMAIN @ |->
                             IF mk \in DOMAIN rated
                             THEN [@[mk] EXCEPT !.criteria.val = [ck \in DOMAIN @ |->
                                      IF ck \in DOMAIN rated[mk] /\ rated[mk][ck].comment.at # 0
                                      THEN [rating |-> rated[mk][ck].rating.v,
                                            comment |-> rated[mk][ck].comment.v]
                                      ELSE @[ck]]]
                             ELSE @[mk]],
                         !.strengths = strengths,
                         !.next_steps = next_steps]} :
       \* the widget calls of the script when nothing stops it. After the text areas it
       \* shows the metrics, one call for each selected module and one for the overall
       \* score (app.py:407-411), and then the download button (app.py:419), its last
       \* call, number export_at; a rating loop that raises ends the run before.
       \E s \in {[profiles0 |-> profiles0, saved |-> saved, selected |-> selected,
                  rebuild |-> rebuild, form0 |-> form0, form1 |-> form1,
                  topic_at |-> topic_at, next_at |-> next_at,
                  export_at |-> next_at + Len(selected) + 2,
                  last |-> IF fail_at = 0 THEN next_at + Len(selected) + 2
                           ELSE topic_at + 2 * (fail_at - 1),
                  selected_profile |-> Render(1, WidgetId(FALSE, profiles0.keys),
                                              selected_profile),
                  new_name |-> IF is_new THEN Render(2, WidgetId(FALSE, TXT_EMPTY), new_name)
                               ELSE NotRendered,
                  checked |-> [mk \in Range(all_modules) |->
                                  Render(1 + more + Index(all_modules, mk),
                                         WidgetId(FALSE, checked_default[mk]), checked[mk])],
                  weights |-> [mk \in Range(all_modules) |->
                                  Render(5 + more + Index(all_modules, mk),
                                         WidgetId(FALSE, weight_default[mk]), weight[mk])],
                  save |-> Render(10 + more, WidgetId(FALSE, TXT_EMPTY), FALSE),
                  date |-> Render(11 + more, WidgetId(FALSE, Today), wf.date),
                  observer |-> Render(12 + more, WidgetId(FALSE, TXT_EMPTY), wf.observer),
                  colleague |-> Render(13 + more, WidgetId(FALSE, colleague_default), colleague),
                  school |-> Render(14 + more, WidgetId(FALSE, TXT_EMPTY), wf.school),
                  subject |-> Render(15 + more, WidgetId(FALSE, TXT_EMPTY), wf.subject),
                  grade |-> Render(16 + more, WidgetId(FALSE, TXT_EMPTY), wf.grade),
                  topic |-> Render(17 + more, WidgetId(FALSE, TXT_EMPTY), wf.topic),
                  rating |-> [mk \in Range(all_modules) |->
                                 [ck \in Range(BLI_DATA.val[mk].criteria.keys) |->
                                     IF mk \in DOMAIN rated THEN rated[mk][ck].rating
                                     ELSE NotRendered]],
                  comment |-> [mk \in Range(all_modules) |->
                                  [ck \in Range(BLI_DATA.val[mk].criteria.keys) |->
                                      IF mk \in DOMAIN rated THEN rated[mk][ck].comment
                                      ELSE NotRendered]],
                  strengths |-> IF fail_at = 0
                                THEN Render(next_at - 1, WidgetId(FALSE, form0.strengths),
                                            strengths)
                                ELSE NotRendered,
                  next_steps |-> IF fail_at = 0
                                 THEN Render(next_at, WidgetId(FALSE, form0.next_steps),
                                             next_steps)
                                 ELSE NotRendered]} :
       \E k \in StopPoints(s.last, n) :
       \E done \in {k = s.last} :
       \E up \in (IF k > s.next_at THEN Roundings(compute_scores(s.form1))
                  \* a run that does not get to the metrics formats no score
                  ELSE {[x \in {} |-> FALSE]}) :
       \E shown \in {IF k <= s.next_at \/ Len(s.form1.modules.keys) = 0 THEN 0
                     ELSE IF k >= s.export_at THEN Len(s.selected) + 1
                     ELSE k - s.next_at} :
       \E docx \in {IF k = s.export_at THEN export_docx(s.form1, up) ELSE NotRun},
          pdf \in {IF k = s.export_at THEN export_pdf(s.form1, up) ELSE NotRun} :
          /\ stops' = IF done THEN stops ELSE stops + 1
          /\ pc' = IF done THEN "done"
                   ELSE IF k >= s.next_at THEN "tail"
                   ELSE IF k >= s.topic_at THEN "loop"
                   ELSE "head"
          \* app.py:91, 338-340
          /\ profiles' = IF save /\ Rendered(s.save, k) THEN s.saved ELSE s.profiles0
          \* app.py:359-361
          /\ session_keys' = session_keys \cup {"profiles"}
                 \cup (IF k >= s.topic_at /\ s.rebuild THEN {"form", "form_modules"} ELSE {})
          /\ form_modules' = IF k >= s.topic_at /\ s.rebuild THEN s.selected ELSE form_modules
          \* app.py:363-372, 393-394, 400-401
          /\ form' = IF k < s.topic_at THEN form
                     ELSE [s.form0 EXCEPT
                              !.modules.val = [mk \in DOMAIN @ |->
                                  [@[mk] EXCEPT !.criteria.val = [ck \in DOMAIN @ |->
                                      IF /\ mk \in DOMAIN s.comment
                                         /\ ck \in DOMAIN s.comment[mk]
                                         /\ Rendered(s.comment[mk][ck], k)
                                      THEN s.form1.modules.val[mk].criteria.val[ck]
                                      ELSE @[ck]]]],
                              !.strengths = IF k >= s.next_at THEN s.form1.strengths ELSE @,
                              !.next_steps = IF k >= s.next_at THEN s.form1.next_steps ELSE @]
          \* app.py:403-411
          /\ live' = MetricsOnPage(live, IF shown = 0 THEN << >>
                                          ELSE LiveScores(s.form1, s.selected, up),
                                    shown, done)
          \* app.py:417-421; an exception ends the run: the later exports are not reached
          /\ docx_out' = IF k = s.export_at THEN docx ELSE docx_out
          /\ pdf_out' = IF k = s.export_at /\ docx.status = "ok" THEN pdf ELSE pdf_out
          /\ w' = [wf EXCEPT
                      !.selected_profile = PageState(@, s.selected_profile, k, done),
                      !.new_name = PageState(@, s.new_name, k, done),
                      !.checked = [mk \in DOMAIN @ |-> PageState(@[mk], s.checked[mk], k, done)],
                      !.weights = [mk \in DOMAIN @ |-> PageState(@[mk], s.weights[mk], k, done)],
                      !.colleague = PageState(@, s.colleague, k, done),
                      !.rating = [mk \in DOMAIN @ |-> [ck \in DOMAIN @[mk] |->
                                     PageState(@[mk][ck], s.rating[mk][ck], k, done)]],
                      !.comment = [mk \in DOMAIN @ |-> [ck \in DOMAIN @[mk] |->
                                      PageState(@[mk][ck], s.comment[mk][ck], k, done)]],
                      !.strengths = PageState(@, s.strengths, k, done),
                      !.next_steps = PageState(@, s.next_steps, k, done)]
          /\ wid' = [selected_profile |-> PageId(wid.selected_profile, s.selected_profile, k, done),
                     new_name |-> PageId(wid.new_name, s.new_name, k, done),
                     checked |-> [mk \in DOMAIN wid.checked |->
                                     PageId(wid.checked[mk], s.checked[mk], k, done)],
                     weights |-> [mk \in DOMAIN wid.weights |->
                                     PageId(wid.weights[mk], s.weights[mk], k, done)],
                     save |-> PageId(wid.save, s.save, k, done),
                     date |-> PageId(wid.date, s.date, k, done),
                     observer |-> PageId(wid.observer, s.observer, k, done),
                     colleague |-> PageId(wid.colleague, s.colleague, k, done),
                     school |-> PageId(wid.school, s.school, k, done),
                     subject |-> PageId(wid.subject, s.subject, k, done),
                     grade |-> PageId(wid.grade, s.grade, k, done),
                     topic |-> PageId(wid.topic, s.topic, k, done),
                     rating |-> [mk \in DOMAIN wid.rating |-> [ck \in DOMAIN wid.rating[mk] |->
                                    PageId(wid.rating[mk][ck], s.rating[mk][ck], k, done)]],
                     comment |-> [mk \in DOMAIN wid.comment |-> [ck \in DOMAIN wid.comment[mk] |->
                                     PageId(wid.comment[mk][ck], s.comment[mk][ck], k, done)]],
                     strengths |-> PageId(wid.strengths, s.strengths, k, done),
                     next_steps |-> PageId(wid.next_steps, s.next_steps, k, done)]
    /\ UNCHANGED <<keyed, keeps, ret, earlier>>

\* ---------------------------------------------------------------------------
\* the page is opened, and the user's interactions; each reruns the script
\* ---------------------------------------------------------------------------
FirstRun ==
    /\ pc = "start"
    /\ Run(w, FALSE, steps)

\* The user acts on a widget that the page shows: after a run, or during one, which
\* is then stopped.
Interact == pc \in {"head", "loop", "tail", "done"} /\ steps < MaxSteps

\* the user picks one of the options the selectbox on the page offers
SelectProfile(p) ==
    /\ Interact
    /\ wid.selected_profile.by # "none"
    /\ p \in Range(wid.selected_profile.value)
    /\ p # w.selected_profile[wid.selected_profile]
    /\ Run([w EXCEPT !.selected_profile[wid.selected_profile] = p], FALSE, steps + 1)

SetNewName(t) ==
    /\ Interact
    /\ wid.new_name.by # "none"
    /\ t # w.new_name[wid.new_name]
    /\ Run([w EXCEPT !.new_name[wid.new_name] = t], FALSE, steps + 1)

ToggleFocus(mk) ==
    /\ Interact
    /\ wid.checked[mk].by # "none"
    /\ Run([w EXCEPT !.checked[mk][wid.checked[mk]] = ~@], FALSE, steps + 1)

SetWeight(mk, x) ==
    /\ Interact
    /\ wid.weights[mk].by # "none"
    /\ x # w.weights[mk][wid.weights[mk]]
    /\ Run([w EXCEPT !.weights[mk][wid.weights[mk]] = x], FALSE, steps + 1)

SaveProfile ==
    /\ Interact
    /\ wid.save.by # "none"
    /\ Run(w, TRUE, steps + 1)

SetDate(d) ==
    /\ Interact
    /\ wid.date.by # "none"
    /\ d # w.date
    /\ Run([w EXCEPT !.date = d], FALSE, steps + 1)

SetMeta(fld, t) ==
    /\ Interact
    /\ wid[fld].by # "none"
    /\ IF fld = "colleague"
       THEN /\ t # w.colleague[wid.colleague]
            /\ Run([w EXCEPT !.colleague[wid.colleague] = t], FALSE, steps + 1)
       ELSE /\ t # w[fld]
            /\ Run([w EXCEPT ![fld] = t], FALSE, steps + 1)

SetRating(mk, ck, r) ==
    /\ Interact
    /\ ck \in DOMAIN wid.rating[mk]
    /\ wid.rating[mk][ck].by # "none"
    /\ r # w.rating[mk][ck][wid.rating[mk][ck]]
    /\ Run([w EXCEPT !.rating[mk][ck][wid.rating[mk][ck]] = r], FALSE, steps + 1)

SetComment(mk, ck, t) ==
    /\ Interact
    /\ ck \in DOMAIN wid.comment[mk]
    /\ wid.comment[mk][ck].by # "none"
    /\ t # w.comment[mk][ck][wid.comment[mk][ck]]
    /\ Run([w EXCEPT !.comment[mk][ck][wid.comment[mk][ck]] = t], FALSE, steps + 1)

SetStrengths(t) ==
    /\ Interact
    /\ wid.strengths.by # "none"
    /\ t # w.strengths[wid.strengths]
    /\ Run([w EXCEPT !.strengths[wid.strengths] = t], FALSE, steps + 1)

SetNextSteps(t) ==
    /\ Interact
    /\ wid.next_steps.by # "none"
    /\ t # w.next_steps[wid.next_steps]
    /\ Run([w EXCEPT !.next_steps[wid.next_steps] = t], FALSE, steps + 1)

\* the user clicks "DOCX herunterladen" (app.py:419): the browser saves the data of
\* the button and the script is rerun with the widgets as they are
DownloadDocx ==
    /\ Interact
    /\ docx_out.status = "ok"
    /\ Run(w, FALSE, steps + 1)

Next ==
    \/ FirstRun
    \/ \E p \in Range(profiles.keys) : SelectProfile(p)
    \/ \E t \in NewNames : SetNewName(t)
    \/ \E mk \in Range(all_modules) : ToggleFocus(mk)
    \/ \E mk \in Range(all_modules), x \in WeightInputs : SetWeight(mk, x)
    \/ SaveProfile
    \/ \E d \in DateInputs : SetDate(d)
    \/ \E fld \in MetaFields, t \in UserTexts : SetMeta(fld, t)
    \/ \E mk \in Range(all_modules), ck \in EditedCriteria, r \in SliderInputs : SetRating(mk, ck, r)
    \/ \E mk \in Range(all_modules), ck \in EditedCriteria, t \in UserTexts : SetComment(mk, ck, t)
    \/ \E t \in UserTexts : SetStrengths(t)
    \/ \E t \in UserTexts : SetNextSteps(t)
    \/ DownloadDocx

Spec == Init /\ [][Next]_vars

\* ---------------------------------------------------------------------------
\* compute_scores, the exports and the comment lookup as functions of a record
\* that a caller builds, edits in place and hands over
\* ---------------------------------------------------------------------------
\* a dict from its keys and, by position, its values
DictOf(ks, vs) == [keys |-> ks, val |-> [k \in Range(ks) |-> vs[Index(ks, k)]]]

\* the record f with the ratings of module mk set, in the order of its criteria
WithRatings(f, mk, rs) ==
    [f EXCEPT !.modules.val[mk].criteria.val =
        [ck \in DOMAIN @ |->
            [@[ck] EXCEPT !.rating = rs[Index(f.modules.val[mk].criteria.keys, ck)]]]]

\* a module result with the given criteria, all rated r
ModuleWith(mk, cks, r) ==
    ModuleResult(mk, DictOf(cks, [i \in 1..Len(cks) |-> [rating |-> r, comment |-> TXT_EMPTY]]))

\* M1 rated [2,3,2,4,1], M3 rated [3,3,3,3,3], weights {M1: 1.2, M3: 1.0}
RecExample ==
    [WithRatings(WithRatings(init_form(<<"M1", "M3">>, StrfDate(Today)),
                             "M1", <<2, 3, 2, 4, 1>>), "M3", <<3, 3, 3, 3, 3>>)
        EXCEPT !.weights = DictOf(<<"M1", "M3">>, <<Rat(12, 10), ROne>>),
               !.profile_focus = <<"M1", "M3">>,
               !.colleague = PROFILE_MUELLER,
               !.school = USER_TEXT,
               !.strengths = USER_TEXT,
               !.modules.val["M1"].criteria.val["1.1"].comment = AUTO_COMMENTS.val[2]]

\* ObservationForm(): no modules, no weights
RecEmpty == ObservationForm

\* all four modules, every weight 0
RecZeroWeights ==
    [WithRatings(WithRatings(init_form(all_modules, StrfDate(Today)),
                             "M1", <<4, 4, 4, 4, 4>>), "M4", <<0, 1, 2, 3, 4>>)
        EXCEPT !.weights = Weights4(RZero, RZero, RZero, RZero),
               !.profile_focus = all_modules]

\* one module without a weight of its own; the only weight is that of an absent module
RecNoWeight ==
    [WithRatings(init_form(<<"M2">>, StrfDate(Today)), "M2", <<1, 0, 4, 2, 2>>)
        EXCEPT !.weights = DictOf(<<"M4">>, <<Rat(3, 1)>>)]

\* a module that the catalog does not have
RecUnknownModule ==
    [init_form(<<"M1">>, StrfDate(Today))
        EXCEPT !.modules = DictPut(@, "M9", ModuleWith("M9", <<"9.1">>, 3))]

\* a module without criteria
RecNoCriteria ==
    [WithRatings(init_form(<<"M2">>, StrfDate(Today)), "M2", <<3, 3, 4, 4, 4>>)
        EXCEPT !.modules = DictPut(@, "M1", ModuleWith("M1", << >>, 0)),
               !.weights = DictOf(<<"M1", "M2">>, <<ROne, ROne>>)]

\* a catalog module with a criterion that the catalog does not have
RecUnknownCriterion ==
    [ObservationForm
        EXCEPT !.modules = DictPut(EmptyDict, "M3", ModuleWith("M3", <<"3.1", "9.1">>, 2))]

SeedRecords ==
    {RecExample, RecEmpty, RecZeroWeights, RecNoWeight, RecUnknownModule, RecNoCriteria,
     RecUnknownCriterion}

\* weights a caller sets
PureWeights == {RZero, ROne, Rat(5, 2)}

\* ratings handed to the comment lookup
LookupRatings == (MinRating - OutOfRange)..(MaxRating + OutOfRange)

InitPure ==
    /\ form \in SeedRecords
    /\ ret = NoRet
    /\ pc = "pure"
    /\ steps = 0
    /\ session_keys = {}
    /\ profiles = EmptyDict
    /\ form_modules = << >>
    /\ w = NoWidgets
    /\ wid = NoWidgetIds
    /\ keyed = FALSE
    /\ keeps = FALSE
    /\ stops = 0
    /\ live = NotRun
    /\ docx_out = NotRun
    /\ pdf_out = NotRun
    /\ earlier = NotRun

SessionVars ==
    <<session_keys, profiles, form_modules, w, wid, keyed, keeps, pc, stops,
      live, docx_out, pdf_out>>

\* what a caller holds of the scores after an edit: the result of the compute_scores
\* call made on the record as it was before, if that was the last call
Earlier == IF ret.op = "compute_scores" THEN ret.result ELSE NotRun

\* form.modules[mk].criteria[ck].rating = r (as app.py:393); an assignment returns nothing
EditRating(mk, ck, r) ==
    /\ pc = "pure"
    /\ steps < MaxEdits
    /\ mk \in Range(form.modules.keys)
    /\ ck \in Range(form.modules.val[mk].criteria.keys)
    /\ r # form.modules.val[mk].criteria.val[ck].rating
    /\ form' = [form EXCEPT !.modules.val[mk].criteria.val[ck].rating = r]
    /\ steps' = steps + 1
    /\ ret' = NoRet
    /\ earlier' = Earlier
    /\ UNCHANGED SessionVars

\* form.weights[mk] = x
EditWeight(mk, x) ==
    /\ pc = "pure"
    /\ steps < MaxEdits
    /\ DictGet(form.weights, mk, x) # x \/ ~Has(form.weights, mk)
    /\ form' = [form EXCEPT !.weights = DictPut(@, mk, x)]
    /\ steps' = steps + 1
    /\ ret' = NoRet
    /\ earlier' = Earlier
    /\ UNCHANGED SessionVars

Ret(op, arg, result) == [op |-> op, arg |-> arg, result |-> result]

\* compute_scores handing out again what it returned before the record was edited
CallComputeScores_reuses_result ==
    /\ pc = "pure"
    /\ ret' = Ret("compute_scores", 0,
                  IF earlier.status = "ok" THEN earlier ELSE Ok(compute_scores(form)))
    /\ UNCHANGED <<form, steps, earlier>>
    /\ UNCHANGED SessionVars

CallComputeScores ==
    /\ pc = "pure"
    /\ ret' = Ret("compute_scores", 0, Ok(compute_scores(form)))
    /\ UNCHANGED <<form, steps, earlier>>
    /\ UNCHANGED SessionVars

\* export_docx storing the "-" placeholder of an empty free text in the record
CallExportDocx_stores_placeholder ==
    /\ pc = "pure"
    /\ \E up \in Roundings(compute_scores(form)) :
           ret' = Ret("export_docx", 0, export_docx(form, up))
    /\ form' = [form EXCEPT !.strengths = IF Len(@) # 0 THEN @ ELSE TXT_HYPHEN,
                            !.next_steps = IF Len(@) # 0 THEN @ ELSE TXT_HYPHEN]
    /\ UNCHANGED <<steps, earlier>>
    /\ UNCHANGED SessionVars

CallExportDocx ==
    /\ pc = "pure"
    /\ \E up \in Roundings(compute_scores(form)) :
           ret' = Ret("export_docx", 0, export_docx(form, up))
    /\ UNCHANGED <<form, steps, earlier>>
    /\ UNCHANGED SessionVars

CallExportPdf ==
    /\ pc = "pure"
    /\ \E up \in Roundings(compute_scores(form)) :
           ret' = Ret("export_pdf", 0, export_pdf(form, up))
    /\ UNCHANGED <<form, steps, earlier>>
    /\ UNCHANGED SessionVars

CallExportJson ==
    /\ pc = "pure"
    /\ ret' = Ret("export_json", 0, export_json(form))
    /\ UNCHANGED <<form, steps, earlier>>
    /\ UNCHANGED SessionVars

\* the lookup reads no record: it is called on the records as constructed
CallDefaultComment(r) ==
    /\ pc = "pure"
    /\ steps = 0
    /\ ret' = Ret("default_comment", r, Ok(default_comment(r)))
    /\ UNCHANGED <<form, steps, earlier>>
    /\ UNCHANGED SessionVars

RecordModules == Range(all_modules) \cup {"M9"}
RecordCriteria ==
    UNION {Range(BLI_DATA.val[mk].criteria.keys) : mk \in Range(all_modules)} \cup {"9.1"}

NextPure ==
    \/ \E mk \in RecordModules, ck \in RecordCriteria, r \in RatingRange : EditRating(mk, ck, r)
    \/ \E mk \in Range(all_modules), x \in PureWeights : EditWeight(mk, x)
    \/ CallComputeScores
    \/ CallExportDocx
    \/ CallExportPdf
    \/ CallExportJson
    \/ \E r \in LookupRatings : CallDefaultComment(r)

SpecPure == InitPure /\ [][NextPure]_vars

\* ===========================================================================
\* Properties
\* ===========================================================================
\* sum of f[k] over the keys k in S
RECURSIVE SumOver(_, _)
SumOver(S, f) ==
    IF S = {} THEN 0
    ELSE LET k == CHOOSE x \in S : TRUE IN f[k] + SumOver(S \ {k}, f)

\* sum of the rationals f[k] over the keys k in S
RECURSIVE RSumOver(_, _)
RSumOver(S, f) ==
    IF S = {} THEN RZero
    ELSE LET k == CHOOSE x \in S : TRUE IN RAdd(f[k], RSumOver(S \ {k}, f))

\* x is the arithmetic mean of the ratings of mod, 0 for a module without criteria
IsMean(x, mod) ==
    LET cs == mod.criteria.val
        n == Cardinality(DOMAIN cs)
        total == SumOver(DOMAIN cs, [ck \in DOMAIN cs |-> cs[ck].rating])
    IN  IF n = 0 THEN x = RZero ELSE x.n * n = total * x.d

\* the weight of module mk in record f: f.weights[mk] if present, 1.0 otherwise
WeightOf(f, mk) == IF mk \in DOMAIN f.weights.val THEN f.weights.val[mk] ELSE ROne

\* the total weight of the modules present in f
TotalWeight(f) ==
    RSumOver(DOMAIN f.modules.val, [mk \in DOMAIN f.modules.val |-> WeightOf(f, mk)])

\* overall is the weight-normalised mean of the per-module averages pm of record f,
\* 0 when the weights of the modules present add up to 0
IsOverall(overall, pm, f) ==
    LET ms == DOMAIN f.modules.val
        total == TotalWeight(f)
        weighted == RSumOver(ms, [mk \in ms |-> RMul(pm.val[mk], WeightOf(f, mk))])
    IN  IF total.n = 0 THEN overall = RZero ELSE RMul(overall, total) = weighted

Computed == ret.op = "compute_scores"
Scores == ret.result.value

\* C1: compute_scores returns a per-module map with exactly one entry per module of
\* record.modules, each the arithmetic mean of the module's criterion ratings; a module
\* without criteria gets 0.0 and the call does not fail.
C1_PerModuleMean ==
    Computed =>
        /\ ret.result.status = "ok"
        /\ Scores.per_module.keys = form.modules.keys
        /\ DOMAIN Scores.per_module.val = DOMAIN form.modules.val
        /\ \A mk \in DOMAIN form.modules.val :
               IsMean(Scores.per_module.val[mk], form.modules.val[mk])

\* compute_scores has returned for a record with a module without criteria and a
\* module whose mean is no whole number
C1_Witness ==
    /\ Computed
    /\ \E mk \in DOMAIN form.modules.val : Len(form.modules.val[mk].criteria.keys) = 0
    /\ \E mk \in DOMAIN form.modules.val : Scores.per_module.val[mk].d = 5

\* C2: when the total weight is not zero, overall is the sum of (module average x
\* weight) over the modules present, divided by the sum of their weights, with weight
\* 1.0 for a module without one; weights of absent modules do not count. For M1 rated
\* [2,3,2,4,1], M3 rated [3,3,3,3,3] and weights {M1: 1.2, M3: 1.0} it is 2.6727.
C2_WeightedOverall ==
    Computed =>
        /\ TotalWeight(form).n # 0 =>
               /\ IsOverall(Scores.overall, Scores.per_module, form)
               /\ \A mk \in DOMAIN form.modules.val :
                      IsMean(Scores.per_module.val[mk], form.modules.val[mk])
        /\ form = RecExample =>
               /\ Scores.per_module.val["M1"] = Rat(24, 10)
               /\ Scores.per_module.val["M3"] = Rat(3, 1)
               /\ (10000 * Scores.overall.n) \div Scores.overall.d = 26727

\* compute_scores has returned for a record with a module that has no weight and a
\* weight that belongs to no module of the record, and its scores are not all 0
C2_Witness ==
    /\ Computed
    /\ TotalWeight(form).n # 0
    /\ Scores.overall.n # 0
    /\ \E mk \in DOMAIN form.modules.val : mk \notin DOMAIN form.weights.val
    /\ \E mk \in DOMAIN form.weights.val :
           mk \notin DOMAIN form.modules.val /\ form.weights.val[mk] # ROne

\* C3: when the weights of the modules present add up to 0 (all of them 0, or no
\* module), compute_scores returns overall 0.0 and does not fail; for a record without
\* modules the per-module map is empty.
C3_ZeroTotalWeight ==
    Computed =>
        /\ ret.result.status = "ok"
        /\ TotalWeight(form).n = 0 => Scores.overall = RZero
        /\ Len(form.modules.keys) = 0 =>
               Scores.per_module.keys = << >> /\ DOMAIN Scores.per_module.val = {}

\* compute_scores has returned for a record whose modules all have weight 0 and whose
\* averages are not all 0
C3_Witness ==
    /\ Computed
    /\ Len(form.modules.keys) # 0
    /\ \A mk \in DOMAIN form.modules.val : WeightOf(form, mk) = RZero
    /\ \E mk \in DOMAIN form.modules.val : Scores.per_module.val[mk].n # 0

Exported == ret.op \in {"export_docx", "export_pdf", "export_json"}

UnknownModule(f) == \E mk \in DOMAIN f.modules.val : mk \notin DOMAIN BLI_DATA.val

\* C4: each of export_docx, export_pdf and export_json fails with the error of an
\* invalid record (the catalog lookup's KeyError) when record.modules holds a module
\* that the catalog does not have, and produces no output.
C4_InvalidRecord ==
    (Exported /\ UnknownModule(form)) =>
        ret.result = [status |-> "raise", exc |-> "KeyError"]

\* C5: compute_scores and the three exports leave every field of the record as it was.
C5_RecordUnchanged ==
    [][ret'.op \in {"compute_scores", "export_docx", "export_pdf", "export_json"}
           => form' = form]_vars

\* export_docx has returned a document for a record with an empty free text
C5_Witness ==
    /\ ret.op = "export_docx"
    /\ ret.result.status = "ok"
    /\ Len(form.next_steps) = 0

\* C6: in every state of the session, the states that a stopped run leaves included,
\* the modules of the form are modules of the catalog, each with exactly the catalog's
\* criteria, and every rating is in 0..4.
C6_FormShape ==
    "form" \in session_keys =>
        /\ DOMAIN form.modules.val \subseteq DOMAIN BLI_DATA.val
        /\ Range(form.modules.keys) = DOMAIN form.modules.val
        /\ \A mk \in DOMAIN form.modules.val :
               LET cs == form.modules.val[mk].criteria
               IN  /\ DOMAIN cs.val = DOMAIN BLI_DATA.val[mk].criteria.val
                   /\ Range(cs.keys) = DOMAIN cs.val
                   /\ \A ck \in DOMAIN cs.val : cs.val[ck].rating \in 0..4

\* a run was stopped inside the rating loop after it had stored a rating of 4
C6_Witness ==
    /\ pc = "loop"
    /\ stops > 0
    /\ \E mk \in DOMAIN form.modules.val :
           \E ck \in DOMAIN form.modules.val[mk].criteria.val :
               form.modules.val[mk].criteria.val[ck].rating = 4

\* the lookup has returned for a rating
LookedUp == ret.op = "default_comment"

\* C7: the lookup returns the fixed text of a rating in 0..4 and fails for a rating
\* outside 0..4 rather than returning a value.
C7_FailsOutOfRange ==
    LookedUp =>
        IF ret.arg \in 0..4
        THEN ret.result = Ok(AUTO_COMMENTS.val[ret.arg])
        ELSE ret.result.status = "raise"

\* the substitution table of the PDF fallback, for one character
TransliterateChar(c) ==
    CASE c = 228 -> <<97, 101>>
      [] c = 246 -> <<111, 101>>
      [] c = 252 -> <<117, 101>>
      [] c = 196 -> <<65, 101>>
      [] c = 214 -> <<79, 101>>
      [] c = 220 -> <<85, 101>>
      [] c = 223 -> <<115, 115>>
      [] c \in {8211, 8212} -> <<45>>
      [] c \in {8222, 8220} -> <<34>>
      [] c \in {8218, 8217} -> <<39>>
      [] OTHER -> <<c>>

Transliterate(text) == Flatten([i \in 1..Len(text) |-> TransliterateChar(text[i])])

\* C8: export_pdf does not fail: with the core font it transliterates every text and
\* returns a non-empty output that holds the transliterated title.
C8_PdfFallback ==
    ret.op = "export_pdf" =>
        /\ ret.result.status = "ok"
        /\ Len(ret.result.value) > 0
        /\ \E i \in 1..Len(ret.result.value) : ret.result.value[i] = Transliterate(TXT_TITLE)

\* the paragraphs of the score summary of a document: those after its last heading
SummaryOf(doc) ==
    LET last == CHOOSE i \in 1..Len(doc) :
                    doc[i].kind = "heading" /\ \A j \in (i + 1)..Len(doc) : doc[j].kind # "heading"
    IN  [i \in 1..(Len(doc) - last) |-> doc[last + i].text]

\* the last n texts that export_pdf hands to the PDF for its score summary
PdfSummaryOf(texts, n) == [i \in 1..n |-> texts[Len(texts) - n + i].text]

\* text is x with two decimals and " / 4": x rounded to the nearest hundredth, to
\* either side when x lies half way
IsMetric(text, x) == text \in {Fmt2(x, FALSE) \o TXT_OF4, Fmt2(x, TRUE) \o TXT_OF4}

\* the arithmetic mean of the ratings of mod as they are now, 0 without criteria
MeanNow(mod) ==
    LET cs == mod.criteria.val
        n == Cardinality(DOMAIN cs)
    IN  IF n = 0 THEN RZero
        ELSE Rat(SumOver(DOMAIN cs, [ck \in DOMAIN cs |-> cs[ck].rating]), n)

\* the weight-normalised mean of the means of the modules of f as they are now
OverallNow(f) ==
    LET ms == DOMAIN f.modules.val
        total == TotalWeight(f)
    IN  IF total.n = 0 THEN RZero
        ELSE RDiv(RSumOver(ms, [mk \in ms |-> RMul(MeanNow(f.modules.val[mk]), WeightOf(f, mk))]),
                  total)

\* lines is the score summary of record f as it is now: one line per module and the
\* overall one
IsSummaryNow(lines, f) ==
    LET ms == f.modules.keys
    IN  /\ Len(lines) = Len(ms) + 1
        /\ \A i \in 1..Len(ms) :
               \E text \in {Fmt2(MeanNow(f.modules.val[ms[i]]), up) \o TXT_OF4 : up \in BOOLEAN} :
                   lines[i] = Chars(ms[i]) \o TXT_COLON \o text
        /\ \E text \in {Fmt2(OverallNow(f), up) \o TXT_OF4 : up \in BOOLEAN} :
               lines[Len(ms) + 1] = TXT_GESAMT \o text

\* C9: whatever was edited and whatever compute_scores returned before, a call of
\* compute_scores returns the scores of the record's ratings and weights as they are
\* now, and so do the calls inside export_docx and export_pdf: the summary of the
\* document, and the summary lines that export_pdf computes for the PDF, are those of
\* the record as it is now.
C9_FreshScores ==
    /\ Computed =>
           /\ ret.result.status = "ok"
           /\ DOMAIN Scores.per_module.val = DOMAIN form.modules.val
           /\ \A mk \in DOMAIN form.modules.val :
                  Scores.per_module.val[mk] = MeanNow(form.modules.val[mk])
           /\ Scores.overall = OverallNow(form)
    /\ (ret.op = "export_docx" /\ ret.result.status = "ok") =>
           IsSummaryNow(SummaryOf(ret.result.value), form)
    /\ ret.op = "export_pdf" =>
           \A up \in Roundings(compute_scores(form)) :
               IsSummaryNow(PdfSummaryOf(PdfTail(form, up), Len(form.modules.keys) + 1), form)

\* compute_scores has returned for a record that was edited after an earlier call,
\* and what it returns differs from what the earlier call returned
C9_Witness ==
    /\ Computed
    /\ earlier.status = "ok"
    /\ earlier.value.overall # Scores.overall
    /\ \E mk \in DOMAIN form.modules.val :
           earlier.value.per_module.val[mk] # Scores.per_module.val[mk]

\* every rating of f is 0, every comment and both free texts are empty
IsFresh(f) ==
    /\ \A mk \in DOMAIN f.modules.val :
           \A ck \in DOMAIN f.modules.val[mk].criteria.val :
               f.modules.val[mk].criteria.val[ck] = [rating |-> 0, comment |-> << >>]
    /\ f.strengths = << >>
    /\ f.next_steps = << >>

\* sel is the checked modules in catalog order, or all modules when none is checked
IsSelection(sel, checked) ==
    /\ \A i, j \in 1..Len(sel) : i < j => Index(all_modules, sel[i]) < Index(all_modules, sel[j])
    /\ Range(sel) = IF \E mk \in DOMAIN checked : checked[mk]
                    THEN {mk \in DOMAIN checked : checked[mk]}
                    ELSE Range(all_modules)
    /\ Len(sel) > 0

\* the page ws, ids shows all focus checkboxes
FocusOnPage(ids) == \A mk \in DOMAIN ids.checked : ids.checked[mk].by # "none"

\* the values of the focus checkboxes on the page
CheckedOnPage(ws, ids) == [mk \in DOMAIN ids.checked |-> ws.checked[mk][ids.checked[mk]]]

\* the page shows the slider and the text area of criterion ck of module mk
CriterionOnPage(ids, mk, ck) ==
    ids.rating[mk][ck].by # "none" /\ ids.comment[mk][ck].by # "none"

\* what they hold
CriterionOfPage(ws, ids, mk, ck) ==
    [rating |-> ws.rating[mk][ck][ids.rating[mk][ck]],
     comment |-> ws.comment[mk][ck][ids.comment[mk][ck]]]

\* the step is a run of the script
IsRun == pc = "start" \/ steps' # steps

\* the run of this step finds no form or another module list than the stored one
Rebuilds == "form" \notin session_keys \/ form_modules # form_modules'

\* the stored form_modules, form.profile_focus and the keys of form.modules are, after
\* the step, the modules selected on the page
SelectionStored ==
    /\ "form" \in session_keys'
    /\ "form_modules" \in session_keys'
    /\ FocusOnPage(wid')
    /\ IsSelection(form_modules', CheckedOnPage(w', wid'))
    /\ form'.profile_focus = form_modules'
    /\ form'.modules.keys = form_modules'
    /\ DOMAIN form'.modules.val = Range(form_modules')

BeforeLoop(mk, ck) ==
    IF Rebuilds THEN [rating |-> 0, comment |-> << >>]
    ELSE form.modules.val[mk].criteria.val[ck]

C10_StoppedWitness ==
    /\ pc = "head"
    /\ "form" \in session_keys
    /\ FocusOnPage(wid)
    /\ ~IsSelection(form_modules, CheckedOnPage(w, wid))

\* a run was stopped right after it had rebuilt the form: every rating is 0 and every
\* text is empty
C10_FreshWitness ==
    /\ pc = "loop"
    /\ steps > 0
    /\ form_modules # DEFAULT_PROFILES.val[PROFILE_NEU].focus
    /\ IsFresh(form)
====
